---- MODULE Spec2Model ----
(***************************************************************************)
(* A model of foggybot.py: one run of the script.  WeatherGov's            *)
(* get_weather_data makes four requests to the weather service inside one  *)
(* try block; the main block composes a prompt, calls the generation       *)
(* service, extracts a colour code from the reply and writes               *)
(* weather_report.json.                                                    *)
(*                                                                         *)
(* Python values: None is the record [none |-> TRUE]; an optional number   *)
(* or string v is Some(v); a str is a sequence of one-character strings.   *)
(***************************************************************************)
EXTENDS Integers, Sequences, FiniteSets, TLC

VARIABLES
    pc,               \* the statement the run is at
    httpxExc,         \* whether the installed httpx resolves httpx.exceptions.RequestException
    clock,            \* the process's local clock
    file0,            \* weather_report.json when the process started
    file,             \* weather_report.json now
    calls,            \* the external calls made so far, in order, with their outcome
    point_data,       \* the shape of the points response
    forecast_data,    \* the forecast response
    stations_data,    \* the shape of the station list
    observation_data, \* the latest observation
    data,             \* what get_weather_data returned
    fetchErr,         \* the exception raised inside the try block, if any
    escaped,          \* the exception that ended the process, if any
    clockReads,       \* every read of the clock: its value and the calls made before it
    local_time,       \* main's local_time
    forecasts,        \* main's prompt text
    response,         \* the generation service's reply, then the cleaned report
    raw_text,         \* the generation service's reply as it came
    color_code,       \* main's color_code
    result            \* main's result dict

vars == <<pc, httpxExc, clock, file0, file, calls, point_data, forecast_data,
          stations_data, observation_data, data, fetchErr, escaped, clockReads,
          local_time, forecasts, response, raw_text, color_code, result>>

----------------------------------------------------------------------------
(* Bounds of the model *)

MaxLen == 8
MaxPeriods == 3
MaxClock == 2

(* Program constants *)

KeepPeriods == 2
MphPerMsMilli == 2237

----------------------------------------------------------------------------
(* Python values *)

None == [none |-> TRUE]
Some(v) == [none |-> FALSE, value |-> v]

NoError == "none"

\* strftime("%Y-%m-%d %H:%M:%S") of the clock in TIMEZONE
Strftime(t) == [format |-> "%Y-%m-%d %H:%M:%S", tz |-> "America/New_York", t |-> t]

\* a timestamp as the weather service writes it
ApiTimestamp(t) == [format |-> "iso8601", tz |-> "+00:00", t |-> t]

LAT == "42.287"
LON == "-71.133"

----------------------------------------------------------------------------
(* Python's str and re, on sequences of one-character strings *)

\* the characters the generation service's replies are drawn from: a hex
\* digit, a word character that is no hex digit, '#', and a space
Alphabet == {"#", "a", "g", " "}

HexDigits == {"0", "1", "2", "3", "4", "5", "6", "7", "8", "9",
              "a", "b", "c", "d", "e", "f", "A", "B", "C", "D", "E", "F"}

\* \w: the letters and digits of the replies, and '_'
WordChars == HexDigits \cup {"g", "G", "z", "Z", "_"}

Whitespace == {" ", "\t", "\n", "\r"}

Texts == UNION {[1..n -> Alphabet] : n \in 0..MaxLen}

\* s[i..j], empty when j < i
Slice(s, i, j) == SubSeq(s, i, j)

AllHex(s, i, j) == \A k \in i..j : s[k] \in HexDigits

\* \b after the word character s[p]
WordBoundaryAfter(s, p) == p = Len(s) \/ s[p + 1] \notin WordChars

\* the pattern #[0-9a-fA-F]{3,6}: a run of three to six hex digits
MatchAtRun(s, i) ==
    IF i > Len(s) \/ s[i] # "#" THEN 0
    ELSE LET ok == {n \in 3..6 : i + n <= Len(s) /\ AllHex(s, i + 1, i + n)}
         IN  IF ok = {} THEN 0 ELSE 1 + CHOOSE n \in ok : \A m \in ok : m <= n

\* the length of the match of #(?:[0-9a-fA-F]{3}){1,2}\b at s[i], 0 for none:
\* the greedy {1,2} tries two groups of three, then one
MatchAt(s, i) ==
    IF i > Len(s) \/ s[i] # "#" THEN 0
    ELSE IF i + 6 <= Len(s) /\ AllHex(s, i + 1, i + 6) /\ WordBoundaryAfter(s, i + 6)
         THEN 7
    ELSE IF i + 3 <= Len(s) /\ AllHex(s, i + 1, i + 3) /\ WordBoundaryAfter(s, i + 3)
         THEN 4
    ELSE 0

\* the positions the pattern matches at
MatchPositions(s) == {i \in 1..Len(s) : MatchAt(s, i) > 0}

\* re.search(pattern, s): the leftmost match, as Some(<<start, length>>)
re_search(s) ==
    IF MatchPositions(s) = {} THEN None
    ELSE LET i == CHOOSE k \in MatchPositions(s) : \A m \in MatchPositions(s) : k <= m
         IN  Some(<<i, MatchAt(s, i)>>)

\* match.group(0)
group0(s, m) == Slice(s, m.value[1], m.value[1] + m.value[2] - 1)

StartsWith(s, sub) == Len(sub) <= Len(s) /\ Slice(s, 1, Len(sub)) = sub

\* s with only its leftmost occurrence of sub removed (str.replace(sub, "", 1))
RECURSIVE replace_first(_, _)
replace_first(s, sub) ==
    IF Len(s) < Len(sub) \/ sub = <<>> THEN s
    ELSE IF StartsWith(s, sub) THEN Slice(s, Len(sub) + 1, Len(s))
    ELSE <<Head(s)>> \o replace_first(Tail(s), sub)

\* s.replace(sub, ""): every non-overlapping occurrence, left to right
RECURSIVE str_replace(_, _)
str_replace(s, sub) ==
    IF Len(s) < Len(sub) \/ sub = <<>> THEN s
    ELSE IF StartsWith(s, sub) THEN str_replace(Slice(s, Len(sub) + 1, Len(s)), sub)
    ELSE <<Head(s)>> \o str_replace(Tail(s), sub)

\* s.strip()
RECURSIVE lstrip(_)
lstrip(s) == IF s # <<>> /\ Head(s) \in Whitespace THEN lstrip(Tail(s)) ELSE s

RECURSIVE rstrip(_)
rstrip(s) ==
    IF s # <<>> /\ s[Len(s)] \in Whitespace THEN rstrip(Slice(s, 1, Len(s) - 1)) ELSE s

strip(s) == lstrip(rstrip(s))

\* lines 162-163
ColorCode(raw) ==
    LET color_code_match == re_search(raw)
    IN  IF color_code_match # None THEN Some(group0(raw, color_code_match)) ELSE None

\* lines 166-168: `if color_code:` is true of a non-empty string
CleanReport(raw, code) ==
    strip(IF code # None /\ code.value # <<>> THEN str_replace(raw, code.value) ELSE raw)

----------------------------------------------------------------------------
(* The weather service *)

\* how one request (get, raise_for_status, json) can end
RequestOutcomes == {"ok", "RequestError", "HTTPStatusError", "JSONDecodeError"}

PointShapes == {"ok", "no_forecast", "null_properties", "no_relativeLocation"}
ForecastShapes == {"ok", "no_periods", "null_periods"}
StationShapes == {"ok", "empty_features", "no_features", "null_features"}
ObservationShapes == {"ok", "no_properties", "null_temperature", "no_value"}

\* the upstream forecast periods, in upstream order
Period(i) == [name |-> i, detailedForecast |-> i]
UpstreamPeriods(n) == [i \in 1..n |-> Period(i)]

\* an observation's leaf values; null is None
Temperatures == {None, Some(0), Some(100)}
WindSpeeds == {None, Some(0), Some(1)}
Humidities == {None, Some(50)}
WindDirections == {None, Some(90)}

Unset == [shape |-> "unset"]

\* line 124; celsius * 9 / 5 is exact on the temperatures of the model
celsius_to_fahrenheit_falsy(celsius) ==
    IF celsius = None \/ celsius.value = 0 THEN None
    ELSE Some((celsius.value * 9) \div 5 + 32)

celsius_to_fahrenheit(celsius) ==
    IF celsius = None THEN None ELSE Some((celsius.value * 9) \div 5 + 32)

\* line 128; the result is in thousandths of a mile per hour
ms_to_mph(meters_per_second) ==
    IF meters_per_second = None THEN None
    ELSE Some(meters_per_second.value * MphPerMsMilli)

\* periods[:2] taken from the wrong end
TakePeriodsLast(periods) ==
    SubSeq(periods,
           IF Len(periods) < KeepPeriods THEN 1 ELSE Len(periods) - KeepPeriods + 1,
           Len(periods))

\* lines 108-110: periods[:2]
TakePeriods(periods) ==
    SubSeq(periods, 1, IF Len(periods) < KeepPeriods THEN Len(periods) ELSE KeepPeriods)

\* lines 78-111
WeatherData(obs, fc) ==
    [none |-> FALSE,
     location |-> [name |-> "city", state |-> "state",
                   latitude |-> LAT, longitude |-> LON],
     current_conditions |->
        [timestamp |-> obs.timestamp,
         temperature_f |-> celsius_to_fahrenheit(obs.temperature),
         temperature_c |-> obs.temperature,
         humidity |-> obs.relativeHumidity,
         wind_speed_mph |-> ms_to_mph(obs.windSpeed),
         wind_direction |-> obs.windDirection,
         description |-> obs.textDescription],
     forecast |-> TakePeriods(fc.periods)]

\* a handler that returns an empty snapshot instead of None
FailureValueEmptySnapshot ==
    [none |-> FALSE,
     location |-> [name |-> "city", state |-> "state",
                   latitude |-> LAT, longitude |-> LON],
     current_conditions |-> None,
     forecast |-> <<>>]

\* lines 117 and 120: return None
FailureValue == None

\* lines 115 and 118.  A raised exception is matched against the except
\* clauses in order, and the first clause names
\* httpx.exceptions.RequestException: where httpx has no such attribute,
\* evaluating the clause raises AttributeError in place of any handling.
\* TypeError (subscripting a null) is in neither clause.
Handled(kind) ==
    /\ httpxExc = "present"
    /\ kind \in {"RequestError", "HTTPStatusError",
                 "KeyError", "IndexError", "JSONDecodeError"}

EscapesAs(kind) == IF httpxExc = "absent" THEN "AttributeError" ELSE kind

\* an exception raised inside the try block of get_weather_data
Raise(kind) ==
    /\ fetchErr' = kind
    /\ IF Handled(kind)
       THEN /\ data' = FailureValue
            /\ pc' = "check"
            /\ escaped' = escaped
       ELSE /\ data' = data
            /\ pc' = "crashed"
            /\ escaped' = EscapesAs(kind)

NoRaise(next) ==
    /\ pc' = next
    /\ UNCHANGED <<data, fetchErr, escaped>>

Call(name, outcome) == calls' = Append(calls, [name |-> name, ok |-> outcome = "ok"])

\* lines 49-57
GetPoints ==
    /\ pc = "points"
    /\ \E o \in RequestOutcomes :
          /\ Call("points", o)
          /\ IF o # "ok"
             THEN Raise(o) /\ UNCHANGED point_data
             ELSE \E shape \in PointShapes :
                     /\ point_data' = [shape |-> shape]
                     /\ CASE shape = "no_forecast" -> Raise("KeyError")
                          [] shape = "null_properties" -> Raise("TypeError")
                          [] OTHER -> NoRaise("forecast")
    /\ UNCHANGED <<httpxExc, clock, file0, file, forecast_data, stations_data,
                   observation_data, clockReads, local_time, forecasts,
                   response, raw_text, color_code, result>>

\* lines 60-62
GetForecast ==
    /\ pc = "forecast"
    /\ \E o \in RequestOutcomes :
          /\ Call("forecast", o)
          /\ IF o # "ok"
             THEN Raise(o) /\ UNCHANGED forecast_data
             ELSE /\ \E shape \in ForecastShapes, n \in 0..MaxPeriods :
                        forecast_data' =
                            [shape |-> shape,
                             periods |-> IF shape = "ok" THEN UpstreamPeriods(n) ELSE <<>>]
                  /\ NoRaise("stations")
    /\ UNCHANGED <<httpxExc, clock, file0, file, point_data, stations_data,
                   observation_data, clockReads, local_time, forecasts,
                   response, raw_text, color_code, result>>

\* lines 65-72, with a failed request tried again
GetStationsRetry ==
    /\ pc = "stations"
    /\ Len(calls) < 8
    /\ \E o \in RequestOutcomes :
          /\ Call("stations", o)
          /\ IF o # "ok"
             THEN UNCHANGED <<pc, data, fetchErr, escaped, stations_data>>
             ELSE /\ stations_data' = [shape |-> "ok"]
                  /\ NoRaise("observation")
    /\ UNCHANGED <<httpxExc, clock, file0, file, point_data, forecast_data,
                   observation_data, clockReads, local_time, forecasts,
                   response, raw_text, color_code, result>>

\* lines 65-72
GetStations ==
    /\ pc = "stations"
    /\ \E o \in RequestOutcomes :
          /\ Call("stations", o)
          /\ IF o # "ok"
             THEN Raise(o) /\ UNCHANGED stations_data
             ELSE \E shape \in StationShapes :
                     /\ stations_data' = [shape |-> shape]
                     /\ CASE shape = "empty_features" -> Raise("IndexError")
                          [] shape = "no_features" -> Raise("KeyError")
                          [] shape = "null_features" -> Raise("TypeError")
                          [] OTHER -> NoRaise("observation")
    /\ UNCHANGED <<httpxExc, clock, file0, file, point_data, forecast_data,
                   observation_data, clockReads, local_time, forecasts,
                   response, raw_text, color_code, result>>

\* lines 73-75
GetObservation ==
    /\ pc = "observation"
    /\ \E o \in RequestOutcomes :
          /\ Call("observation", o)
          /\ IF o # "ok"
             THEN Raise(o) /\ UNCHANGED observation_data
             ELSE /\ \E shape \in ObservationShapes, t \in Temperatures,
                        w \in WindSpeeds, h \in Humidities, d \in WindDirections :
                        /\ shape # "ok" =>
                              /\ t = None /\ w = None /\ h = None /\ d = None
                        /\ observation_data' =
                              [shape |-> shape,
                               timestamp |-> ApiTimestamp(clock),
                               temperature |-> t,
                               relativeHumidity |-> h,
                               windSpeed |-> w,
                               windDirection |-> d,
                               textDescription |-> "description"]
                  /\ NoRaise("format")
    /\ UNCHANGED <<httpxExc, clock, file0, file, point_data, forecast_data,
                   stations_data, clockReads, local_time, forecasts,
                   response, raw_text, color_code, result>>

\* lines 78-113: the dict display is evaluated in source order
FormatResponse ==
    /\ pc = "format"
    /\ CASE point_data.shape = "no_relativeLocation" -> Raise("KeyError")
         [] observation_data.shape = "no_properties" -> Raise("KeyError")
         [] observation_data.shape = "null_temperature" -> Raise("TypeError")
         [] observation_data.shape = "no_value" -> Raise("KeyError")
         [] forecast_data.shape = "no_periods" -> Raise("KeyError")
         [] forecast_data.shape = "null_periods" -> Raise("TypeError")
         [] OTHER -> /\ data' = WeatherData(observation_data, forecast_data)
                     /\ pc' = "check"
                     /\ UNCHANGED <<fetchErr, escaped>>
    /\ UNCHANGED <<httpxExc, clock, file0, file, calls, point_data, forecast_data,
                   stations_data, observation_data, clockReads, local_time,
                   forecasts, response, raw_text, color_code, result>>

----------------------------------------------------------------------------
(* The main block *)

\* the replies of the generation service in a whole run: no colour code, a
\* trailing code, a code of six digits, the same code twice
Replies ==
    { <<"g">>,
      <<"g", " ", "#", "a", "a", "a">>,
      <<"#", "a", "a", "a", "a", "a", "a", " ">>,
      <<"#", "a", "a", "a", "#", "a", "a", "a">> }

\* weather_report.json
NoFile == [exists |-> FALSE, fields |-> <<>>]
EmptyFile == [exists |-> TRUE, fields |-> <<>>]

\* the keys of the result dict, in the order json.dump writes them
ResultKeys == <<"forecast_data", "weather_report", "color_code", "timestamp">>

\* what an earlier run left in weather_report.json
PriorObservation ==
    [shape |-> "ok", timestamp |-> ApiTimestamp(0), temperature |-> None,
     relativeHumidity |-> None, windSpeed |-> None, windDirection |-> None,
     textDescription |-> "description"]

PriorForecast == [shape |-> "ok", periods |-> UpstreamPeriods(0)]

PriorFile ==
    [exists |-> TRUE,
     fields |-> << <<"forecast_data", WeatherData(PriorObservation, PriorForecast)>>,
                   <<"weather_report", <<"g">> >>,
                   <<"color_code", None>>,
                   <<"timestamp", Strftime(0)>> >>]

\* a file holding one whole record
Complete(f) ==
    /\ f.exists
    /\ Len(f.fields) = Len(ResultKeys)
    /\ \A k \in 1..Len(ResultKeys) : f.fields[k][1] = ResultKeys[k]

\* line 136: `if data:` is true of a non-empty dict
Truthy(d) == d # None

\* lines 170-175, with the observation's timestamp in place of local_time
ResultDictObservationTime(d, report, code, time) ==
    [forecast_data |-> d, weather_report |-> report, color_code |-> code,
     timestamp |-> d.current_conditions.timestamp]

\* lines 170-175
ResultDict(d, report, code, time) ==
    [forecast_data |-> d, weather_report |-> report, color_code |-> code,
     timestamp |-> time]

\* line 136
CheckData ==
    /\ pc = "check"
    /\ pc' = IF Truthy(data) THEN "compose" ELSE "done"
    /\ UNCHANGED <<httpxExc, clock, file0, file, calls, point_data, forecast_data,
                   stations_data, observation_data, data, fetchErr, escaped,
                   clockReads, local_time, forecasts, response, raw_text,
                   color_code, result>>

\* lines 137-147: the prompt, with the one read of the clock
Compose ==
    /\ pc = "compose"
    /\ clockReads' = Append(clockReads, [at |-> clock, calls |-> calls])
    /\ local_time' = Strftime(clock)
    /\ forecasts' =
          [header |-> "Below is the weather forecast for Boston, Massachusetts: ",
           periods |-> [i \in 1..Len(data.forecast) |->
                           <<data.forecast[i].name, data.forecast[i].detailedForecast>>],
           local_time |-> local_time',
           instructions |-> "PROMPT"]
    /\ pc' = "generate"
    /\ UNCHANGED <<httpxExc, clock, file0, file, calls, point_data, forecast_data,
                   stations_data, observation_data, data, fetchErr, escaped,
                   response, raw_text, color_code, result>>

\* lines 149-160, with a failure of the call swallowed
GenerateSwallow ==
    /\ pc = "generate"
    /\ \E o \in {"ok", "GenerationError"} :
          /\ Call("generate", o)
          /\ \E t \in Replies :
                /\ raw_text' = (IF o = "ok" THEN t ELSE <<>>)
                /\ response' = raw_text'
          /\ pc' = "extract"
          /\ UNCHANGED escaped
    /\ UNCHANGED <<httpxExc, clock, file0, file, point_data, forecast_data,
                   stations_data, observation_data, data, fetchErr,
                   clockReads, local_time, forecasts, color_code, result>>

\* lines 149-160: the call of the generation service; nothing catches its failure
Generate ==
    /\ pc = "generate"
    /\ \E o \in {"ok", "GenerationError"} :
          /\ Call("generate", o)
          /\ IF o = "ok"
             THEN /\ \E t \in Replies : raw_text' = t /\ response' = t
                  /\ pc' = "extract"
                  /\ UNCHANGED escaped
             ELSE /\ pc' = "crashed"
                  /\ escaped' = o
                  /\ UNCHANGED <<raw_text, response>>
    /\ UNCHANGED <<httpxExc, clock, file0, file, point_data, forecast_data,
                   stations_data, observation_data, data, fetchErr,
                   clockReads, local_time, forecasts, color_code, result>>

\* lines 162-168
Extract ==
    /\ pc = "extract"
    /\ color_code' = ColorCode(response)
    /\ response' = CleanReport(response, color_code')
    /\ pc' = "result"
    /\ UNCHANGED <<httpxExc, clock, file0, file, calls, point_data, forecast_data,
                   stations_data, observation_data, data, fetchErr, escaped,
                   clockReads, local_time, forecasts, raw_text, result>>

\* lines 170-175
BuildResult ==
    /\ pc = "result"
    /\ result' = ResultDict(data, response, color_code, local_time)
    /\ pc' = "open"
    /\ UNCHANGED <<httpxExc, clock, file0, file, calls, point_data, forecast_data,
                   stations_data, observation_data, data, fetchErr, escaped,
                   clockReads, local_time, forecasts, response, raw_text,
                   color_code>>

\* line 177: open(..., "w") creates the file or truncates it
OpenFile ==
    /\ pc = "open"
    /\ \E o \in {"ok", "OSError"} :
          /\ Call("write", o)
          /\ IF o = "ok"
             THEN file' = EmptyFile /\ pc' = "dump" /\ UNCHANGED escaped
             ELSE file' = file /\ pc' = "crashed" /\ escaped' = o
    /\ UNCHANGED <<httpxExc, clock, file0, point_data, forecast_data,
                   stations_data, observation_data, data, fetchErr,
                   clockReads, local_time, forecasts, response, raw_text,
                   color_code, result>>

\* line 178: json.dump writes the record piece by piece; a write can fail
DumpField ==
    /\ pc = "dump"
    /\ \E o \in {"ok", "OSError"} :
          IF o = "ok"
          THEN LET k == Len(file.fields) + 1
               IN  /\ file' = [file EXCEPT !.fields =
                                  Append(@, <<ResultKeys[k], result[ResultKeys[k]]>>)]
                   /\ pc' = IF k = Len(ResultKeys) THEN "close" ELSE "dump"
                   /\ UNCHANGED escaped
          ELSE file' = file /\ pc' = "crashed" /\ escaped' = o
    /\ UNCHANGED <<httpxExc, clock, file0, calls, point_data, forecast_data,
                   stations_data, observation_data, data, fetchErr,
                   clockReads, local_time, forecasts, response, raw_text,
                   color_code, result>>

\* line 177: the with block closes the file
CloseFile ==
    /\ pc = "close"
    /\ pc' = "done"
    /\ UNCHANGED <<httpxExc, clock, file0, file, calls, point_data, forecast_data,
                   stations_data, observation_data, data, fetchErr, escaped,
                   clockReads, local_time, forecasts, response, raw_text,
                   color_code, result>>

\* time passes while the process runs
Tick ==
    /\ pc \notin {"done", "crashed"}
    /\ clock < MaxClock
    /\ clock' = clock + 1
    /\ UNCHANGED <<pc, httpxExc, file0, file, calls, point_data, forecast_data,
                   stations_data, observation_data, data, fetchErr, escaped,
                   clockReads, local_time, forecasts, response, raw_text,
                   color_code, result>>

----------------------------------------------------------------------------
(* One run of the script *)

Init ==
    /\ pc = "points"
    /\ httpxExc \in {"absent", "present"}
    /\ clock = 1
    /\ file0 \in {NoFile, PriorFile}
    /\ file = file0
    /\ calls = <<>>
    /\ point_data = Unset
    /\ forecast_data = Unset
    /\ stations_data = Unset
    /\ observation_data = Unset
    /\ data = None
    /\ fetchErr = NoError
    /\ escaped = NoError
    /\ clockReads = <<>>
    /\ local_time = None
    /\ forecasts = None
    /\ response = <<>>
    /\ raw_text = <<>>
    /\ color_code = None
    /\ result = None

Next ==
    \/ GetPoints
    \/ GetForecast
    \/ GetStations
    \/ GetObservation
    \/ FormatResponse
    \/ CheckData
    \/ Compose
    \/ Generate
    \/ Extract
    \/ BuildResult
    \/ OpenFile
    \/ DumpField
    \/ CloseFile
    \/ Tick

Spec == Init /\ [][Next]_vars

----------------------------------------------------------------------------
(* The extraction, on every reply up to MaxLen characters: the run has     *)
(* fetched a snapshot and the generation service has just answered.        *)

OkCalls(names) == [i \in 1..Len(names) |-> [name |-> names[i], ok |-> TRUE]]

ExtractInit ==
    /\ pc = "extract"
    /\ httpxExc = "absent"
    /\ clock = 1
    /\ file0 = NoFile
    /\ file = file0
    /\ calls = OkCalls(<<"points", "forecast", "stations", "observation", "generate">>)
    /\ point_data = [shape |-> "ok"]
    /\ forecast_data = [shape |-> "ok", periods |-> UpstreamPeriods(0)]
    /\ stations_data = [shape |-> "ok"]
    /\ observation_data =
          [shape |-> "ok", timestamp |-> ApiTimestamp(1), temperature |-> None,
           relativeHumidity |-> None, windSpeed |-> None, windDirection |-> None,
           textDescription |-> "description"]
    /\ data = WeatherData(observation_data, forecast_data)
    /\ fetchErr = NoError
    /\ escaped = NoError
    /\ clockReads = <<[at |-> 1, calls |-> SubSeq(calls, 1, 4)]>>
    /\ local_time = Strftime(1)
    /\ forecasts = [header |-> "Below is the weather forecast for Boston, Massachusetts: ",
                    periods |-> <<>>, local_time |-> local_time,
                    instructions |-> "PROMPT"]
    /\ raw_text \in Texts
    /\ response = raw_text
    /\ color_code = None
    /\ result = None

ExtractNext ==
    \/ Extract
    \/ BuildResult

ExtractSpec == ExtractInit /\ [][ExtractNext]_vars

----------------------------------------------------------------------------
(* The claims *)

Returned == pc \notin {"points", "forecast", "stations", "observation", "format"}
Ended == pc \in {"done", "crashed"}
Called(name) == \E i \in 1..Len(calls) : calls[i].name = name
CalledOk(name) == \E i \in 1..Len(calls) : calls[i].name = name /\ calls[i].ok
CallFailed(name) == \E i \in 1..Len(calls) : calls[i].name = name /\ ~calls[i].ok
WeatherCalls == OkCalls(<<"points", "forecast", "stations", "observation">>)
WrittenThisRun == pc \in {"close", "done"} /\ CalledOk("write")

\* C1: every failure of a fetch step (transport, HTTP status, missing key,
\* empty station list, a null where an object is expected, a body that is
\* not JSON) is caught by get_weather_data, which returns None; no
\* exception escapes it.
C1_FetchFailureReturnsNone ==
    fetchErr \in {"RequestError", "HTTPStatusError", "JSONDecodeError",
                  "KeyError", "IndexError", "TypeError"}
        => escaped = NoError /\ pc # "crashed" /\ data = None

\* C2: in a run whose weather fetch fails, the generation service is never
\* called and weather_report.json is never opened: it stays as it was when
\* the process started.
C2_FailedFetchLeavesFile ==
    fetchErr # NoError => file = file0 /\ ~Called("generate") /\ ~Called("write")

C2_Witness ==
    /\ Ended
    /\ fetchErr = "IndexError"
    /\ stations_data.shape = "empty_features"
    /\ file0 = PriorFile
    /\ file = PriorFile

\* C3: when the run has ended, also by a failure during the write, the
\* output file holds one complete record of the four fields or is as it was
\* before the run; it is never empty and never holds part of a record.
C3_CompleteOrUntouched ==
    Ended => file = file0 \/ Complete(file)

\* C4: of a reply with two or more matches of the hex-colour pattern, the
\* first match is the color_code and exactly that one occurrence is removed:
\* the report is the reply without it, stripped, with every later match in
\* place.
C4_OnlyFirstRemoved ==
    (pc # "extract" /\ Cardinality(MatchPositions(raw_text)) >= 2) =>
        LET i == re_search(raw_text).value[1]
            n == re_search(raw_text).value[2]
        IN  /\ color_code = Some(Slice(raw_text, i, i + n - 1))
            /\ response = strip(Slice(raw_text, 1, i - 1)
                                \o Slice(raw_text, i + n, Len(raw_text)))

\* C5: when the latest observation carries null for a leaf value, in
\* otherwise well-formed responses, get_weather_data returns a snapshot, not
\* a failure; temperature_f is None exactly when temperature_c is, and
\* wind_speed_mph exactly when the upstream wind speed is; humidity and wind
\* direction pass through, None included.
C5_NullLeafStaysAbsent ==
    (/\ Returned
     /\ point_data.shape = "ok"
     /\ forecast_data.shape = "ok"
     /\ observation_data.shape = "ok") =>
        /\ fetchErr = NoError
        /\ data # None
        /\ data.current_conditions.temperature_c = observation_data.temperature
        /\ (data.current_conditions.temperature_f = None
               <=> observation_data.temperature = None)
        /\ (data.current_conditions.wind_speed_mph = None
               <=> observation_data.windSpeed = None)
        /\ data.current_conditions.humidity = observation_data.relativeHumidity
        /\ data.current_conditions.wind_direction = observation_data.windDirection

C5_Witness ==
    /\ pc = "check"
    /\ observation_data.shape = "ok"
    /\ observation_data.temperature = None
    /\ observation_data.windSpeed = None
    /\ observation_data.relativeHumidity = None
    /\ observation_data.windDirection = None
    /\ data # None
    /\ data.current_conditions.temperature_f = None
    /\ data.current_conditions.wind_speed_mph = None

\* C6: when the call of the generation service fails, the failure ends the
\* run and the output file is neither opened nor changed; the file is opened
\* only after the generation call has returned text.
C6_GenerationFailureEndsRun ==
    /\ CallFailed("generate") =>
          /\ pc = "crashed"
          /\ escaped = "GenerationError"
          /\ file = file0
          /\ ~Called("write")
    /\ (Called("write") \/ file # file0) =>
          /\ CalledOk("generate")
          /\ raw_text \in Replies

C6_Witness ==
    /\ CallFailed("generate")
    /\ pc = "crashed"
    /\ file0 = PriorFile
    /\ file = PriorFile

\* C7: the color_code of the result dict is None or '#' followed by exactly
\* three or exactly six hexadecimal digits, whatever the reply.
C7_ColorCodeShape ==
    pc = "open" =>
        \/ result.color_code = None
        \/ LET c == result.color_code.value
           IN  /\ Len(c) \in {4, 7}
               /\ c[1] = "#"
               /\ \A k \in 2..Len(c) : c[k] \in HexDigits

C7_Witness ==
    /\ pc = "open"
    /\ result.color_code # None
    /\ Len(result.color_code.value) = 7
    /\ Len(raw_text) = MaxLen

\* C8: a successful get_weather_data returns as forecast the first
\* min(n, 2) of the n upstream periods, in upstream order.
C8_FirstTwoPeriods ==
    (Returned /\ fetchErr = NoError) =>
        LET n == Len(forecast_data.periods)
        IN  /\ Len(data.forecast) = (IF n < 2 THEN n ELSE 2)
            /\ \A i \in 1..Len(data.forecast) :
                   data.forecast[i] = forecast_data.periods[i]

C8_Witness ==
    /\ pc = "check"
    /\ fetchErr = NoError
    /\ Len(forecast_data.periods) = MaxPeriods
    /\ Len(data.forecast) = 2

\* C9: the external calls are made in the order points, forecast, station
\* list, latest observation, generation service, file write, each at most
\* once; a call is made only when every earlier one returned (a request
\* returns when its transport, its status and its JSON parse are good), so
\* no call is tried again; a run that writes the file has made the four
\* weather requests and then the one generation request.
C9_CallOrder ==
    LET Order == <<"points", "forecast", "stations", "observation",
                   "generate", "write">>
    IN  /\ Len(calls) <= Len(Order)
        /\ \A i \in 1..Len(calls) : calls[i].name = Order[i]
        /\ \A i \in 1..(Len(calls) - 1) : calls[i].ok
        /\ file # file0 => Len(calls) = Len(Order)

C9_Witness ==
    /\ pc = "done"
    /\ Complete(file)
    /\ file # file0
    /\ Len(calls) = 6

\* C10: the timestamp of a written record is the one reading of the local
\* clock, taken after the four weather requests returned and before the
\* generation service is called; the prompt carries the same value; it is
\* not the observation's timestamp.
C10_TimestampIsLocalTime ==
    WrittenThisRun =>
        LET timestamp == file.fields[4][2]
        IN  /\ file.fields[4][1] = "timestamp"
            /\ Len(clockReads) = 1
            /\ timestamp = Strftime(clockReads[1].at)
            /\ clockReads[1].calls = WeatherCalls
            /\ forecasts.local_time = timestamp
            /\ timestamp # data.current_conditions.timestamp

C10_Witness ==
    /\ WrittenThisRun
    /\ pc = "done"
    /\ clockReads[1].at < clock
    /\ data.current_conditions.timestamp.t = clockReads[1].at

====
